---------------------------- MODULE Spec2Model ----------------------------
(***************************************************************************)
(* Model of the two batch scripts of convert_dicom_to_stl:                 *)
(*   binarization.py                 grayscale slices -> binary masks      *)
(*   convert_binarization_to_stl.py  masks -> volume -> repair -> STL      *)
(* A file name is a record [stem, ext] of character sequences, an image is *)
(* a record [h, w, px] with px a function on its pixel coordinates, and a  *)
(* binary array (uint8 0/255) is a record [h, w, fg] with fg the set of    *)
(* its 255-valued pixels.                                                  *)
(***************************************************************************)
EXTENDS Integers, Sequences, FiniteSets, TLC

VARIABLES
    caseFold,        \* TRUE when glob matches case-insensitively (os.path.normcase on Windows)
    dir,             \* the input directory: a set of file names
    listing,         \* the order in which the directory lists its entries
    content,         \* name -> [ok, img]: whether imread decodes the file, and to what
    files,           \* the scripts' `files` list
    pc,              \* position of the running script
    k,               \* index of the current element of the per-file loop
    img,             \* binarization.py: img
    binary,          \* binarization.py: binary
    binary_dilated,  \* binarization.py: binary_dilated
    binary_filled,   \* binarization.py: binary_filled
    outDir,          \* the output directory of binarization.py: set of [name, mask]
    log,             \* the printed lines
    volume,          \* convert_binarization_to_stl.py: volume, the list of layers
    volume_arr,      \* volume after np.array(volume)
    volume_filled,   \* volume_filled
    mesh,            \* verts and faces returned by marching_cubes
    solid_mesh,      \* solid_mesh.vectors
    stl,             \* the bytes of output_stl, [written, count, tris]
    preview,         \* TRUE once preview_png is saved
    abortedAt        \* stage whose uncaught exception ended the run, "" if none

\* The file system and platform the scripts run on; no script changes them.
envVars == <<caseFold, dir, listing, content>>

\* Variables only convert_binarization_to_stl.py assigns.
reconVars == <<volume, volume_arr, volume_filled, mesh, solid_mesh, stl, preview, abortedAt>>

vars == <<caseFold, dir, listing, content, files, pc, k, img, binary,
          binary_dilated, binary_filled, outDir, log, volume,
          volume_arr, volume_filled, mesh, solid_mesh, stl, preview, abortedAt>>

---------------------------------------------------------------------------
(* Sequences and small helpers *)

Range(s) == {s[i] : i \in DOMAIN s}

Max2(a, b) == IF a >= b THEN a ELSE b

Min2(a, b) == IF a <= b THEN a ELSE b

\* All orderings of a finite set, as sequences without repetition.
Perms(S) ==
    {s \in [1..Cardinality(S) -> S] : \A i, j \in DOMAIN s : i # j => s[i] # s[j]}

---------------------------------------------------------------------------
(* Pixel grids *)

Pixels(h, w) == (1..h) \X (1..w)

\* The same set, held as an explicit enumeration.
Enum(S) == {x : x \in S}

InGrid(p, h, w) == p[1] >= 1 /\ p[1] <= h /\ p[2] >= 1 /\ p[2] <= w

N8(p) == {<<p[1] + a, p[2] + b>> : a \in {-1, 0, 1}, b \in {-1, 0, 1}} \ {p}

N9(p) == {<<p[1] + a, p[2] + b>> : a \in {-1, 0, 1}, b \in {-1, 0, 1}}

N4(p) == {<<p[1] + 1, p[2]>>, <<p[1] - 1, p[2]>>, <<p[1], p[2] + 1>>, <<p[1], p[2] - 1>>}

\* Flood fill inside S from the pixels `front`, `seen` already reached.
RECURSIVE Grow8(_, _, _)
Grow8(S, seen, front) ==
    IF front = {} THEN seen
    ELSE LET nxt == {q \in Enum(UNION {N8(p) : p \in front}) : q \in S /\ q \notin seen}
         IN  Grow8(S, Enum(seen \cup nxt), nxt)

RECURSIVE Grow4(_, _, _)
Grow4(S, seen, front) ==
    IF front = {} THEN seen
    ELSE LET nxt == {q \in Enum(UNION {N4(p) : p \in front}) : q \in S /\ q \notin seen}
         IN  Grow4(S, Enum(seen \cup nxt), nxt)

\* The 8-connected components of a pixel set.
RECURSIVE Components8(_)
Components8(S) ==
    IF S = {} THEN {}
    ELSE LET p == CHOOSE q \in S : TRUE
             c == Grow8(S, {p}, {p})
         IN  {c} \cup Components8(Enum(S \ c))


---------------------------------------------------------------------------
(* Exact arithmetic on naturals beyond 32 bits: little-endian digit        *)
(* sequences in base Base, used only to compare Otsu's class variances.    *)

Base == 100 * 100

ToBig(n) == <<n % Base, (n \div Base) % Base, n \div (Base * Base)>>

Digit(x, i) == IF i \in DOMAIN x THEN x[i] ELSE 0

\* Propagate carries so that every digit is below Base.
RECURSIVE Carry(_, _)
Carry(x, c) ==
    IF x = <<>> THEN (IF c = 0 THEN <<>> ELSE <<c % Base>> \o Carry(<<>>, c \div Base))
    ELSE <<(Head(x) + c) % Base>> \o Carry(Tail(x), (Head(x) + c) \div Base)

\* Sum of the digit products that land on position n.
RECURSIVE Conv(_, _, _, _)
Conv(x, y, n, i) ==
    IF i > Len(x) THEN 0
    ELSE Digit(x, i) * Digit(y, n + 1 - i) + Conv(x, y, n, i + 1)

\* Schoolbook product: the column sums (a few products of digits below Base)
\* stay under 2^31, and Carry then reduces them.
RECURSIVE MulCols(_, _, _)
MulCols(x, y, n) ==
    IF n > Len(x) + Len(y) THEN <<>>
    ELSE <<Conv(x, y, n, 1)>> \o MulCols(x, y, n + 1)

BigMul(x, y) == Carry(MulCols(x, y, 1), 0)

\* x < y, comparing from the most significant digit.
RECURSIVE BigLessFrom(_, _, _)
BigLessFrom(x, y, i) ==
    IF i = 0 THEN FALSE
    ELSE IF Digit(x, i) # Digit(y, i) THEN Digit(x, i) < Digit(y, i)
    ELSE BigLessFrom(x, y, i - 1)

BigLess(x, y) == BigLessFrom(x, y, Max2(Len(x), Len(y)))


---------------------------------------------------------------------------
(* cv2 operations used by binarization.py *)

\* The value of img when cv2.imread returns None.
NoImage == [h |-> 0, w |-> 0, px |-> <<>>]

\* A binary array that was never assigned.
NoArray == [h |-> 0, w |-> 0, fg |-> {}]

Levels(im) == {im.px[p] : p \in DOMAIN im.px}

CountAtMost(im, t) == Cardinality({p \in DOMAIN im.px : im.px[p] <= t})

RECURSIVE SumLevels(_, _)
SumLevels(im, L) ==
    IF L = {} THEN 0
    ELSE LET v == CHOOSE x \in L : TRUE
         IN  v * Cardinality({p \in DOMAIN im.px : im.px[p] = v}) + SumLevels(im, L \ {v})

SumAtMost(im, t) == SumLevels(im, {v \in Levels(im) : v <= t})

\* Between-class variance of the split "value <= t" / "value > t", as the
\* exact fraction num / den times a factor common to all t:
\* q1*q2*(mu1 - mu2)^2 = (s1*N - S*c1)^2 / (N^2 * c1 * (N - c1)).
SigmaNum(im, t) ==
    LET n == Cardinality(DOMAIN im.px)
        d == SumAtMost(im, t) * n - SumAtMost(im, 255) * CountAtMost(im, t)
        a == IF d < 0 THEN 0 - d ELSE d
    IN  BigMul(ToBig(a), ToBig(a))

SigmaDen(im, t) ==
    LET n == Cardinality(DOMAIN im.px)
    IN  ToBig(CountAtMost(im, t) * (n - CountAtMost(im, t)))

SigmaLess(im, t, u) ==
    BigLess(BigMul(SigmaNum(im, t), SigmaDen(im, u)), BigMul(SigmaNum(im, u), SigmaDen(im, t)))

\* cv2.threshold(img, 0, 255, THRESH_BINARY + THRESH_OTSU)[0]: the first i of
\* 0..255 whose split has the greatest variance (strictly greater than every
\* earlier one), 0 when no split has two non-empty classes.  The variance only
\* changes at the grey levels present, and a split is skipped when a class is
\* empty, so the candidates are the levels below the greatest.
OtsuThreshold(im) ==
    LET cand == {v \in Levels(im) : \E x \in Levels(im) : x > v}
    IN  IF cand = {} THEN 0
        ELSE CHOOSE t \in cand :
                /\ \A u \in cand : ~SigmaLess(im, t, u)
                /\ \A u \in cand : u < t => SigmaLess(im, u, t)

ThresholdBias == 59

\* threshold_val = min(otsu_thresh + 59, 255)
ThresholdVal(im) == Min2(OtsuThreshold(im) + ThresholdBias, 255)

\* cv2.threshold(img, threshold_val, 255, THRESH_BINARY): 255 where img > thresh.
ThresholdBinary(im, t) ==
    [h |-> im.h, w |-> im.w, fg |-> {p \in Enum(DOMAIN im.px) : im.px[p] > t}]

MIN_AREA == 70

\* A filter that removes no component.
SmallAreaNever(area) == area < 0

\* The loop over connectedComponentsWithStats(binary, connectivity=8): every
\* labelled component with area < MIN_AREA is set to 0.
SmallArea(area) == area < MIN_AREA

RemoveSmall(b) ==
    [b EXCEPT !.fg = Enum(UNION {c \in Components8(b.fg) : ~SmallArea(Cardinality(c))})]

MorphIterations == 2

\* One pass of cv2.dilate with the 3x3 rectangle: pixels outside the image
\* never contribute.
Dilate1(b) ==
    [b EXCEPT !.fg = {q \in Enum(UNION {N9(p) : p \in b.fg}) : InGrid(q, b.h, b.w)}]

\* One pass of cv2.erode with the 3x3 rectangle: pixels outside the image
\* never erode (the default border value).
Erode1(b) ==
    [b EXCEPT !.fg = {p \in b.fg : \A q \in N9(p) : InGrid(q, b.h, b.w) => q \in b.fg}]

RECURSIVE Dilate(_, _)
Dilate(b, n) == IF n = 0 THEN b ELSE Dilate(Dilate1(b), n - 1)

RECURSIVE Erode(_, _)
Erode(b, n) == IF n = 0 THEN b ELSE Erode(Erode1(b), n - 1)

\* findContours(RETR_EXTERNAL) + drawContours(FILLED): the outer contour of
\* every 8-connected component is filled, which turns to 255 every background
\* pixel that no 4-connected background path joins to the outside of the image.
FillContours(b) ==
    LET frame == {p \in Enum((0..(b.h + 1)) \X (0..(b.w + 1))) :
                     p[1] \in {0, b.h + 1} \/ p[2] \in {0, b.w + 1}}
        bg == Enum((Pixels(b.h, b.w) \ b.fg) \cup frame)
        outside == Grow4(bg, frame, frame)
    IN  [b EXCEPT !.fg = {p \in Enum(Pixels(b.h, b.w)) : p \notin outside}]


---------------------------------------------------------------------------
(* File names and glob *)

UpperLetters == <<"A", "B", "C", "D", "E", "F", "G", "H", "I", "J", "K", "L", "M",
                  "N", "O", "P", "Q", "R", "S", "T", "U", "V", "W", "X", "Y", "Z">>

LowerLetters == <<"a", "b", "c", "d", "e", "f", "g", "h", "i", "j", "k", "l", "m",
                  "n", "o", "p", "q", "r", "s", "t", "u", "v", "w", "x", "y", "z">>

LowerChar(c) ==
    IF \E i \in DOMAIN UpperLetters : UpperLetters[i] = c
    THEN LowerLetters[CHOOSE i \in DOMAIN UpperLetters : UpperLetters[i] = c]
    ELSE c

UpperChar(c) ==
    IF \E i \in DOMAIN LowerLetters : LowerLetters[i] = c
    THEN UpperLetters[CHOOSE i \in DOMAIN LowerLetters : LowerLetters[i] = c]
    ELSE c

\* str.lower / str.upper on a character sequence.
ToLower(s) == [i \in DOMAIN s |-> LowerChar(s[i])]

ToUpper(s) == [i \in DOMAIN s |-> UpperChar(s[i])]

\* fnmatch of the pattern "*.<patExt>" against a name: both sides go through
\* os.path.normcase, which lower-cases on Windows and is the identity elsewhere.
NormCase(s) == IF caseFold THEN ToLower(s) ELSE s

Matches(name, patExt) == NormCase(name.ext) = NormCase(patExt)

\* glob.glob(os.path.join(input_dir, "*.<patExt>")): the matching entries in
\* the order the directory lists them.
RECURSIVE GlobFrom(_, _)
GlobFrom(entries, patExt) ==
    IF entries = <<>> THEN <<>>
    ELSE IF Matches(Head(entries), patExt)
         THEN <<Head(entries)>> \o GlobFrom(Tail(entries), patExt)
         ELSE GlobFrom(Tail(entries), patExt)

Glob(patExt) == GlobFrom(listing, patExt)

\* The raster extensions the specification recognises, lower-cased.
RasterExts == {<<"j", "p", "g">>, <<"j", "p", "e", "g">>, <<"p", "n", "g">>,
               <<"b", "m", "p">>, <<"t", "i", "f">>, <<"t", "i", "f", "f">>}

IsRaster(name) == ToLower(name.ext) \in RasterExts

NoName == [stem |-> <<>>, ext |-> <<>>]

Line(kind, name) == [kind |-> kind, file |-> name]

---------------------------------------------------------------------------
(* binarization.py *)

\* extensions = ["*.jpg", "*.jpeg", "*.JPG", "*.png", "*.bmp", "*.tif", "*.tiff"]
BinExtensions == << <<"j", "p", "g">>, <<"j", "p", "e", "g">>, <<"J", "P", "G">>,
                    <<"p", "n", "g">>, <<"b", "m", "p">>, <<"t", "i", "f">>,
                    <<"t", "i", "f", "f">> >>

RECURSIVE BinFilesFrom(_)
BinFilesFrom(exts) ==
    IF exts = <<>> THEN <<>> ELSE Glob(Head(exts)) \o BinFilesFrom(Tail(exts))

\* cv2.imwrite(output_path, mask): the file of that name now holds the mask.
WriteMask(out, name, mask) ==
    {e \in out : e.name # name} \cup {[name |-> name, mask |-> mask]}

\* lines 12-14: files = [] ; for ext in extensions: files.extend(glob(...))
BinGlob ==
    /\ pc = "glob"
    /\ files' = BinFilesFrom(BinExtensions)
    /\ k' = 1
    /\ pc' = "read"
    /\ UNCHANGED <<envVars, reconVars, img, binary, binary_dilated, binary_filled, outDir, log>>

\* lines 16-17 with a decodable file: img = cv2.imread(file_path, GRAYSCALE)
BinRead ==
    /\ pc = "read"
    /\ k <= Len(files)
    /\ content[files[k]].ok
    /\ img' = content[files[k]].img
    /\ pc' = "threshold"
    /\ UNCHANGED <<envVars, reconVars, files, k, binary, binary_dilated, binary_filled, outDir, log>>

\* A loop that stops at the first undecodable file.
BinReadFailStops ==
    /\ pc = "read"
    /\ k <= Len(files)
    /\ ~content[files[k]].ok
    /\ log' = Append(log, Line("read_failed", files[k]))
    /\ pc' = "halted"
    /\ UNCHANGED <<envVars, reconVars, files, k, img, binary, binary_dilated, binary_filled, outDir>>

\* lines 17-20 with an undecodable file: img is None, print, continue
BinReadFail ==
    /\ pc = "read"
    /\ k <= Len(files)
    /\ ~content[files[k]].ok
    /\ img' = NoImage
    /\ log' = Append(log, Line("read_failed", files[k]))
    /\ k' = k + 1
    /\ UNCHANGED <<envVars, reconVars, files, pc, binary, binary_dilated, binary_filled, outDir>>

\* A threshold step that keeps the foreground left in binary by the previous file.
BinThresholdCarry ==
    /\ pc = "threshold"
    /\ binary' = [ThresholdBinary(img, ThresholdVal(img)) EXCEPT !.fg = @ \cup binary.fg]
    /\ pc' = "denoise"
    /\ UNCHANGED <<envVars, reconVars, files, k, img, binary_dilated, binary_filled, outDir, log>>

\* lines 22-24: Otsu threshold, bias, binary threshold
BinThreshold ==
    /\ pc = "threshold"
    /\ binary' = ThresholdBinary(img, ThresholdVal(img))
    /\ pc' = "denoise"
    /\ UNCHANGED <<envVars, reconVars, files, k, img, binary_dilated, binary_filled, outDir, log>>

\* lines 27-31: small components of binary are cleared in place
BinDenoise ==
    /\ pc = "denoise"
    /\ binary' = RemoveSmall(binary)
    /\ pc' = "dilate"
    /\ UNCHANGED <<envVars, reconVars, files, k, img, binary_dilated, binary_filled, outDir, log>>

\* lines 34-35: binary_dilated = cv2.dilate(binary, kernel, iterations=2)
DilatedOf(b) == Dilate(b, MorphIterations)

BinDilate ==
    /\ pc = "dilate"
    /\ binary_dilated' = DilatedOf(binary)
    /\ pc' = "fill"
    /\ UNCHANGED <<envVars, reconVars, files, k, img, binary, binary_filled, outDir, log>>

\* lines 38-40: the external contours are drawn filled into binary_dilated
BinFill ==
    /\ pc = "fill"
    /\ binary_dilated' = FillContours(binary_dilated)
    /\ pc' = "erode"
    /\ UNCHANGED <<envVars, reconVars, files, k, img, binary, binary_filled, outDir, log>>

\* line 43: binary_filled = cv2.erode(binary_dilated, kernel, iterations=2)
ErodedOf(b) == Erode(b, MorphIterations)

BinErode ==
    /\ pc = "erode"
    /\ binary_filled' = ErodedOf(binary_dilated)
    /\ pc' = "write"
    /\ UNCHANGED <<envVars, reconVars, files, k, img, binary, binary_dilated, outDir, log>>

\* lines 45-48: the mask is written under the input's base name
BinWrite ==
    /\ pc = "write"
    /\ outDir' = WriteMask(outDir, files[k], binary_filled)
    /\ log' = Append(log, Line("saved", files[k]))
    /\ k' = k + 1
    /\ pc' = "read"
    /\ UNCHANGED <<envVars, reconVars, files, img, binary, binary_dilated, binary_filled>>

\* line 50: the loop is exhausted, the completion message is printed
BinDone ==
    /\ pc = "read"
    /\ k > Len(files)
    /\ log' = Append(log, Line("all_done", NoName))
    /\ pc' = "done"
    /\ UNCHANGED <<envVars, reconVars, files, k, img, binary, binary_dilated, binary_filled, outDir>>

NextBin ==
    \/ BinGlob \/ BinRead \/ BinReadFail \/ BinThreshold \/ BinDenoise
    \/ BinDilate \/ BinFill \/ BinErode \/ BinWrite \/ BinDone


---------------------------------------------------------------------------
(* Inputs of the binarization runs *)

Nm(stem, ext) == [stem |-> stem, ext |-> ext]

Readable(im) == [ok |-> TRUE, img |-> im]

Unreadable == [ok |-> FALSE, img |-> NoImage]

\* A grayscale image that is `hi` on the pixels of `bright` and `lo` elsewhere.
TwoLevel(h, w, bright, lo, hi) ==
    [h |-> h, w |-> w, px |-> [p \in Pixels(h, w) |-> IF p \in bright THEN hi ELSE lo]]

NoVolume == [d |-> 0, h |-> 0, w |-> 0, fg |-> {}]

NoMesh == [verts |-> <<>>, faces |-> <<>>]

NoStl == [written |-> FALSE, count |-> 0, tris |-> <<>>]

\* What the variables of convert_binarization_to_stl.py hold before it runs.
ReconIdle ==
    /\ volume = <<>>
    /\ volume_arr = NoVolume
    /\ volume_filled = NoVolume
    /\ mesh = NoMesh
    /\ solid_mesh = <<>>
    /\ stl = NoStl
    /\ preview = FALSE
    /\ abortedAt = ""

\* What the variables of binarization.py hold before its loop runs.
BinIdle ==
    /\ img = NoImage
    /\ binary = NoArray
    /\ binary_dilated = NoArray
    /\ binary_filled = NoArray
    /\ outDir = {}

MaxBatch == 2

\* Slice files of the batch: a lower-case, an upper-case and another
\* upper-case raster extension.
BatchNames ==
    {Nm(<<"1">>, <<"j", "p", "g">>), Nm(<<"2">>, <<"J", "P", "G">>),
     Nm(<<"3">>, <<"P", "N", "G">>)}

\* 10x10 slices: a bright 8x9 block (72 pixels) with a one-pixel hole and a
\* dark gap of one column, next to a bright speck; a uniformly bright slice; and
\* a three-level slice whose bright 7x10 block (70 pixels) sits on a mid-grey band.
SliceBlock == TwoLevel(10, 10, (((2..9) \X (1..9)) \ {<<5, 5>>}) \cup {<<1, 10>>}, 20, 200)

SliceBright == TwoLevel(10, 10, {}, 200, 200)

SliceBand ==
    [h |-> 10, w |-> 10,
     px |-> [p \in Pixels(10, 10) |->
                IF p[1] <= 7 THEN 230 ELSE IF p[1] = 8 THEN 120 ELSE 10]]

BatchContents == {Readable(SliceBlock), Readable(SliceBright), Readable(SliceBand), Unreadable}

InitBatch ==
    /\ caseFold \in BOOLEAN
    /\ \E d \in SUBSET BatchNames :
          /\ Cardinality(d) <= MaxBatch
          /\ dir = d
          /\ listing \in Perms(d)
          /\ content \in [d -> BatchContents]
    /\ files = <<>>
    /\ pc = "glob"
    /\ k = 1
    /\ log = <<>>
    /\ BinIdle
    /\ ReconIdle

SpecBatch == InitBatch /\ [][NextBin]_vars


\* One-slice runs over a family of Side x Side slices: bright rows 1..a and
\* b..Side on a dark ground (a block, or two blocks a gap apart), with one
\* pixel of column 3 flipped (a hole in a block, a speck in the gap) or none.
Side == 10

Bands(a, b) == {p \in Pixels(Side, Side) : p[1] <= a \/ p[1] >= b}

Flip(S, T) == (S \ T) \cup (T \ S)

SliceFamily ==
    {TwoLevel(Side, Side, Flip(Bands(a, b), t), 20, 200) :
        a \in 0..Side, b \in 2..(Side + 1),
        t \in {{}} \cup {{<<r, 3>>} : r \in 1..Side}}

SliceName == Nm(<<"1">>, <<"j", "p", "g">>)

InitSlice ==
    /\ caseFold \in BOOLEAN
    /\ dir = {SliceName}
    /\ listing = <<SliceName>>
    /\ content \in [{SliceName} -> {Readable(im) : im \in SliceFamily} \cup {Unreadable}]
    /\ files = <<>>
    /\ pc = "glob"
    /\ k = 1
    /\ log = <<>>
    /\ BinIdle
    /\ ReconIdle

SpecSlice == InitSlice /\ [][NextBin]_vars

---------------------------------------------------------------------------
(* Claims about binarization.py *)

\* The mask binarization.py computes from one slice, as a function of that
\* slice alone.
SliceMask(im) ==
    ErodedOf(FillContours(DilatedOf(RemoveSmall(ThresholdBinary(im, ThresholdVal(im))))))

MasksNamed(name) == {e \in outDir : e.name = name}

HasLine(kind, name) == \E i \in DOMAIN log : log[i] = Line(kind, name)

\* The files of the list whose loop iteration is over.
Handled == {files[i] : i \in 1..Min2(k - 1, Len(files))}

\* Some statement of the script is ready to run.  The five array steps of an
\* iteration have no condition besides the position in the loop body.
BinCanStep ==
    \/ ENABLED (BinGlob \/ BinRead \/ BinReadFail \/ BinWrite \/ BinDone)
    \/ pc \in {"threshold", "denoise", "dilate", "fill", "erode"}

\* C3: in the binarization batch an undecodable file gets no mask and a logged
\* failure, every decodable file handled so far, before or after it, has exactly
\* one mask file, and the batch never stops before its completion message, which
\* is its last line.
C3_SkipAndContinue ==
    /\ \A f \in Handled :
          IF content[f].ok
          THEN Cardinality(MasksNamed(f)) = 1 /\ HasLine("saved", f)
          ELSE MasksNamed(f) = {} /\ HasLine("read_failed", f)
    /\ \A e \in outDir : content[e.name].ok
    /\ pc # "done" => BinCanStep
    /\ pc = "done" =>
          /\ Handled = Range(files)
          /\ log[Len(log)] = Line("all_done", NoName)

\* A finished batch whose first file was undecodable and whose second was written.
C3_Witness ==
    /\ pc = "done"
    /\ Len(files) >= 2
    /\ ~content[files[1]].ok
    /\ content[files[2]].ok
    /\ MasksNamed(files[2]) # {}

\* C5: every 8-connected component of a written mask has at least MIN_AREA pixels.
C5_NoSmallComponent ==
    \A e \in outDir : \A c \in Components8(e.mask.fg) : Cardinality(c) >= MIN_AREA

\* A written, non-empty mask of a slice whose thresholded image had a component
\* below MIN_AREA.
C5_Witness ==
    /\ pc = "done"
    /\ \E e \in outDir :
          /\ e.mask.fg # {}
          /\ LET im == content[e.name].img
             IN  \E c \in Components8(ThresholdBinary(im, ThresholdVal(im)).fg) :
                    Cardinality(c) < MIN_AREA

\* C7 (binarization stage): once the file list is built, every file of the
\* input directory with a recognised raster extension, in any letter case, is in it.
C7_AllCasesSelected ==
    pc # "glob" => \A n \in dir : IsRaster(n) => n \in Range(files)

\* C10: between two files and at the end of the batch, every mask in the output
\* directory is the mask of the slice of the same name, computed from that
\* slice's pixels alone, whatever else was processed before it.
C10_MaskOfOwnSlice ==
    pc \in {"read", "done"} => \A e \in outDir :
        /\ e.name \in dir
        /\ content[e.name].ok
        /\ e.mask = SliceMask(content[e.name].img)

\* A finished batch that wrote two different masks.
C10_Witness ==
    /\ pc = "done"
    /\ \E e1, e2 \in outDir : e1.mask # e2.mask


---------------------------------------------------------------------------
(* Library operations used by convert_binarization_to_stl.py *)

DigitChars == <<"0", "1", "2", "3", "4", "5", "6", "7", "8", "9">>

IsDigit(c) == \E i \in DOMAIN DigitChars : DigitChars[i] = c

DigitValue(c) == (CHOOSE i \in DOMAIN DigitChars : DigitChars[i] = c) - 1

\* Whether int(stem) returns; the stems of the model are letters and digits.
IsNumeric(stem) == Len(stem) > 0 /\ \A i \in DOMAIN stem : IsDigit(stem[i])

\* int(stem) of a digit string.
RECURSIVE ParseInt(_)
ParseInt(stem) ==
    IF stem = <<>> THEN 0
    ELSE ParseInt(SubSeq(stem, 1, Len(stem) - 1)) * 10 + DigitValue(stem[Len(stem)])

\* The sort key of line 29.
SliceIndex(name) == ParseInt(name.stem)

\* list.sort(key=...) is stable: x goes behind every element whose key is not greater.
RECURSIVE InsertByIndex(_, _)
InsertByIndex(sorted, x) ==
    IF sorted = <<>> THEN <<x>>
    ELSE IF SliceIndex(Head(sorted)) <= SliceIndex(x)
         THEN <<Head(sorted)>> \o InsertByIndex(Tail(sorted), x)
         ELSE <<x>> \o sorted

RECURSIVE SortByIndex(_)
SortByIndex(fs) ==
    IF fs = <<>> THEN <<>>
    ELSE InsertByIndex(SortByIndex(SubSeq(fs, 1, Len(fs) - 1)), fs[Len(fs)])

\* resize_ratio = 0.9, in percent
ResizePercent == 90

\* int(n * resize_ratio)
Scaled(n) == (n * ResizePercent) \div 100

\* cv2.resize(img, (w', h'), interpolation=INTER_NEAREST): destination pixel
\* (y, x), counted from 0, takes source pixel (floor(y*h/h'), floor(x*w/w')).
ResizeNearest(im, h2, w2) ==
    [h |-> h2, w |-> w2,
     px |-> [p \in Pixels(h2, w2) |->
                im.px[<<Min2(((p[1] - 1) * im.h) \div h2, im.h - 1) + 1,
                        Min2(((p[2] - 1) * im.w) \div w2, im.w - 1) + 1>>]]]

\* (img == 255).astype(np.uint8)
IsWhite(im) == [h |-> im.h, w |-> im.w, fg |-> {p \in Enum(DOMAIN im.px) : im.px[p] = 255}]

\* np.array(volume) of layers of one shape: voxel <<z, y, x>>.
StackLayers(layers) ==
    [d |-> Len(layers), h |-> layers[1].h, w |-> layers[1].w,
     fg |-> Enum(UNION {{<<z, p[1], p[2]>> : p \in layers[z].fg} : z \in DOMAIN layers})]

\* A shape test that compares widths only.
SameWidth(layers) == \A i, j \in DOMAIN layers : layers[i].w = layers[j].w

\* np.array(volume) returns only when all layers have one shape.
SameShape(layers) ==
    \A i, j \in DOMAIN layers : layers[i].h = layers[j].h /\ layers[i].w = layers[j].w

InBox(v, vol) ==
    /\ v[1] >= 1 /\ v[1] <= vol.d
    /\ v[2] >= 1 /\ v[2] <= vol.h
    /\ v[3] >= 1 /\ v[3] <= vol.w

Box(vol) == Enum((1..vol.d) \X (1..vol.h) \X (1..vol.w))

\* generate_binary_structure(3, 3): the full 3x3x3 neighbourhood.
N27(v) == {<<v[1] + a, v[2] + b, v[3] + c>> : a \in {-1, 0, 1}, b \in {-1, 0, 1}, c \in {-1, 0, 1}}

\* generate_binary_structure(3, 1): the six face neighbours.
N6(v) == {<<v[1] + 1, v[2], v[3]>>, <<v[1] - 1, v[2], v[3]>>, <<v[1], v[2] + 1, v[3]>>,
          <<v[1], v[2] - 1, v[3]>>, <<v[1], v[2], v[3] + 1>>, <<v[1], v[2], v[3] - 1>>}

\* One pass of scipy binary_dilation with border_value = 0.
Dilate3(vol) ==
    [vol EXCEPT !.fg = {q \in Enum(UNION {N27(v) : v \in vol.fg}) : InBox(q, vol)}]

\* One pass of scipy binary_erosion with border_value = 0: a voxel with a
\* neighbour outside the array is eroded, because the outside counts as 0.
Erode3(vol) ==
    [vol EXCEPT !.fg = {v \in vol.fg : \A q \in N27(v) : q \in vol.fg}]

RECURSIVE DilateTimes(_, _)
DilateTimes(vol, n) == IF n = 0 THEN vol ELSE DilateTimes(Dilate3(vol), n - 1)

RECURSIVE ErodeTimes(_, _)
ErodeTimes(vol, n) == IF n = 0 THEN vol ELSE ErodeTimes(Erode3(vol), n - 1)

\* close_iterations = 2
close_iterations == 2

\* binary_closing(volume, structure=struct, iterations=close_iterations):
\* binary_dilation, then binary_erosion, each with the default border_value 0.
BinaryClosing(vol) == ErodeTimes(DilateTimes(vol, close_iterations), close_iterations)

RECURSIVE Grow6(_, _, _)
Grow6(S, seen, front) ==
    IF front = {} THEN seen
    ELSE LET nxt == {q \in Enum(UNION {N6(p) : p \in front}) : q \in S /\ q \notin seen}
         IN  Grow6(S, Enum(seen \cup nxt), nxt)

\* binary_fill_holes(input): the background is flooded from outside the array
\* through face neighbours; what the flood does not reach becomes foreground.
BinaryFillHoles(vol) ==
    LET shell == {v \in Enum((0..(vol.d + 1)) \X (0..(vol.h + 1)) \X (0..(vol.w + 1))) :
                     ~InBox(v, vol)}
        bg == Enum({v \in Box(vol) : v \notin vol.fg} \cup shell)
        outside == Grow6(bg, shell, shell)
    IN  [vol EXCEPT !.fg = {v \in Box(vol) : v \notin outside}]

\* lines 50-52
Repair(vol) == BinaryFillHoles(BinaryClosing(vol))

\* measure.marching_cubes(volume, level=0.5) raises ValueError when the array
\* is smaller than 2x2x2 or when level lies outside [volume.min(), volume.max()],
\* which for a 0/1 array means all background or all foreground.
Degenerate(vol) == vol.fg = {} \/ vol.fg = Box(vol)

ExtractionRaises(vol) == vol.d < 2 \/ vol.h < 2 \/ vol.w < 2 \/ Degenerate(vol)

\* Rounding of an integer to float32 (24-bit significand, ties to even).
RECURSIVE F32Scaled(_, _)
F32Scaled(n, unit) ==
    IF n < 16777216 * unit THEN
        LET q == n \div unit
            r == n % unit
        IN  IF 2 * r > unit \/ (2 * r = unit /\ q % 2 = 1) THEN (q + 1) * unit ELSE q * unit
    ELSE F32Scaled(n, 2 * unit)

F32(n) == IF n < 0 THEN 0 - F32Scaled(0 - n, 1) ELSE F32Scaled(n, 1)

F32Point(v) == <<F32(v[1]), F32(v[2]), F32(v[3])>>

\* voxel_size = 4.0 mm
voxel_size == 4

\* Vertex positions the extraction can return: marching cubes puts a vertex at
\* the middle of a grid edge, so at a multiple of voxel_size / 2 on each axis.
VertexPool == <<F32Point(<<voxel_size, 0, 0>>),
                F32Point(<<0, voxel_size, 0>>),
                F32Point(<<0, 0, voxel_size>>),
                F32Point(<<voxel_size \div 2, voxel_size \div 2, voxel_size>>),
                F32Point(<<voxel_size, voxel_size \div 2, voxel_size \div 2>>)>>

Corners(nv) == {f \in (1..nv) \X (1..nv) \X (1..nv) : f[1] # f[2] /\ f[2] # f[3] /\ f[1] # f[3]}

FaceLists(nv, nf) == UNION {[1..n -> Corners(nv)] : n \in 1..nf}

\* Meshes of nv vertices and 1..nf faces whose corners are three different
\* vertex indices (counted from 1).
Meshes(nv, nf) ==
    {[verts |-> SubSeq(VertexPool, 1, nv), faces |-> fs] : fs \in FaceLists(nv, nf)}

\* numpy-stl fills in the normal of each triangle on save.
Cross(a, b) == <<a[2] * b[3] - a[3] * b[2], a[3] * b[1] - a[1] * b[3], a[1] * b[2] - a[2] * b[1]>>

Minus(a, b) == <<a[1] - b[1], a[2] - b[2], a[3] - b[3]>>

Normal(tri) == Cross(Minus(tri[2], tri[1]), Minus(tri[3], tri[1]))

ZeroPoint == <<0, 0, 0>>

\* mesh.Mesh(np.zeros(n, dtype=mesh.Mesh.dtype)).vectors
ZeroVectors(n) == [i \in 1..n |-> <<ZeroPoint, ZeroPoint, ZeroPoint>>]

\* A triangle whose second and third corners are exchanged.
FaceVectorsFlipped(verts, f) ==
    <<F32Point(verts[f[1]]), F32Point(verts[f[3]]), F32Point(verts[f[2]])>>

\* for j in range(3): solid_mesh.vectors[i][j] = verts[f[j], :]
FaceVectors(verts, f) == <<F32Point(verts[f[1]]), F32Point(verts[f[2]]), F32Point(verts[f[3]])>>

\* solid_mesh.save(output_stl): the binary layout, a triangle count and one
\* record of normal and three vertices per triangle.
StlBytes(vectors) ==
    [written |-> TRUE,
     count |-> Len(vectors),
     tris |-> [i \in DOMAIN vectors |-> [normal |-> Normal(vectors[i]), v |-> vectors[i]]]]

\* Parsing the file back: the triangles' vertex triples, in file order.
ReadBack(f) == [i \in 1..Min2(f.count, Len(f.tris)) |-> f.tris[i].v]


---------------------------------------------------------------------------
(* convert_binarization_to_stl.py *)

\* extensions = ["*.png", "*.jpg", "*.jpeg", "*.bmp", "*.tif", "*.tiff"]
ReconExtensions == << <<"p", "n", "g">>, <<"j", "p", "g">>, <<"j", "p", "e", "g">>,
                      <<"b", "m", "p">>, <<"t", "i", "f">>, <<"t", "i", "f", "f">> >>

\* lines 24-26: each pattern is globbed as written and upper-cased
RECURSIVE ReconFilesFrom(_)
ReconFilesFrom(exts) ==
    IF exts = <<>> THEN <<>>
    ELSE Glob(Head(exts)) \o Glob(ToUpper(Head(exts))) \o ReconFilesFrom(Tail(exts))

Abort(stage) ==
    /\ pc' = "aborted"
    /\ abortedAt' = stage

\* lines 22-26
ReconGlob ==
    /\ pc = "collect"
    /\ files' = ReconFilesFrom(ReconExtensions)
    /\ pc' = "sort"
    /\ UNCHANGED <<envVars, k, img, binary, binary_dilated, binary_filled, outDir, log,
                   volume, volume_arr, volume_filled, mesh, solid_mesh, stl, preview, abortedAt>>

\* line 29 when every stem parses
ReconSort ==
    /\ pc = "sort"
    /\ \A i \in DOMAIN files : IsNumeric(files[i].stem)
    /\ files' = SortByIndex(files)
    /\ pc' = "check"
    /\ UNCHANGED <<envVars, k, img, binary, binary_dilated, binary_filled, outDir, log,
                   volume, volume_arr, volume_filled, mesh, solid_mesh, stl, preview, abortedAt>>

\* line 29 when int() raises ValueError on a stem
ReconSortFail ==
    /\ pc = "sort"
    /\ \E i \in DOMAIN files : ~IsNumeric(files[i].stem)
    /\ Abort("sort")
    /\ UNCHANGED <<envVars, files, k, img, binary, binary_dilated, binary_filled, outDir, log,
                   volume, volume_arr, volume_filled, mesh, solid_mesh, stl, preview>>

\* lines 31-32: raise RuntimeError when no file was found
ReconNoFiles ==
    /\ pc = "check"
    /\ files = <<>>
    /\ Abort("check")
    /\ UNCHANGED <<envVars, files, k, img, binary, binary_dilated, binary_filled, outDir, log,
                   volume, volume_arr, volume_filled, mesh, solid_mesh, stl, preview>>

\* lines 34-37
ReconBegin ==
    /\ pc = "check"
    /\ files # <<>>
    /\ log' = Append(log, Line("loading", NoName))
    /\ volume' = <<>>
    /\ k' = 1
    /\ pc' = "load"
    /\ UNCHANGED <<envVars, files, img, binary, binary_dilated, binary_filled, outDir,
                   volume_arr, volume_filled, mesh, solid_mesh, stl, preview, abortedAt>>

\* Whether lines 39-43 run through for a file: imread decodes it and neither
\* side of the resized image is 0.
Loads(name) ==
    /\ content[name].ok
    /\ Scaled(content[name].img.h) > 0
    /\ Scaled(content[name].img.w) > 0

\* lines 38-45 for one file: read, resize (resize_ratio < 1.0), append the layer
ReconLoad ==
    /\ pc = "load"
    /\ k <= Len(files)
    /\ Loads(files[k])
    /\ LET src == content[files[k]].img
           small == ResizeNearest(src, Scaled(src.h), Scaled(src.w))
       IN  /\ img' = small
           /\ volume' = Append(volume, IsWhite(small))
    /\ k' = k + 1
    /\ UNCHANGED <<envVars, files, pc, binary, binary_dilated, binary_filled, outDir, log,
                   volume_arr, volume_filled, mesh, solid_mesh, stl, preview, abortedAt>>

\* lines 39-43 raising: img is None (AttributeError on img.shape) or
\* cv2.resize is given an empty size (cv2.error)
ReconLoadFail ==
    /\ pc = "load"
    /\ k <= Len(files)
    /\ ~Loads(files[k])
    /\ Abort("load")
    /\ UNCHANGED <<envVars, files, k, img, binary, binary_dilated, binary_filled, outDir, log,
                   volume, volume_arr, volume_filled, mesh, solid_mesh, stl, preview>>

\* line 46 on layers of one shape
ReconStack ==
    /\ pc = "load"
    /\ k > Len(files)
    /\ SameShape(volume)
    /\ volume_arr' = StackLayers(volume)
    /\ pc' = "repair"
    /\ UNCHANGED <<envVars, files, k, img, binary, binary_dilated, binary_filled, outDir, log,
                   volume, volume_filled, mesh, solid_mesh, stl, preview, abortedAt>>

\* line 46 on layers of different shapes: np.array raises ValueError
\* (inhomogeneous shape; NumPy 1.24 and later)
ReconStackFail ==
    /\ pc = "load"
    /\ k > Len(files)
    /\ ~SameShape(volume)
    /\ Abort("stack")
    /\ UNCHANGED <<envVars, files, k, img, binary, binary_dilated, binary_filled, outDir, log,
                   volume, volume_arr, volume_filled, mesh, solid_mesh, stl, preview>>

\* lines 49-52
ReconRepair ==
    /\ pc = "repair"
    /\ log' = Append(log, Line("repairing", NoName))
    /\ volume_filled' = Repair(volume_arr)
    /\ pc' = "extract"
    /\ UNCHANGED <<envVars, files, k, img, binary, binary_dilated, binary_filled, outDir,
                   volume, volume_arr, mesh, solid_mesh, stl, preview, abortedAt>>

RunFaces == 1

\* What marching_cubes may return for a volume it accepts: the model keeps the
\* vertex and face lists abstract, a mesh of three vertices and 1..RunFaces faces.
SurfaceMeshes == Meshes(3, RunFaces)

\* lines 55-60 when marching_cubes returns
ReconExtract ==
    /\ pc = "extract"
    /\ ~ExtractionRaises(volume_filled)
    /\ log' = Append(log, Line("extracting", NoName))
    /\ mesh' \in SurfaceMeshes
    /\ pc' = "alloc"
    /\ UNCHANGED <<envVars, files, k, img, binary, binary_dilated, binary_filled, outDir,
                   volume, volume_arr, volume_filled, solid_mesh, stl, preview, abortedAt>>

\* lines 55-60 when marching_cubes raises
ReconExtractFail ==
    /\ pc = "extract"
    /\ ExtractionRaises(volume_filled)
    /\ log' = Append(log, Line("extracting", NoName))
    /\ Abort("extract")
    /\ UNCHANGED <<envVars, files, k, img, binary, binary_dilated, binary_filled, outDir,
                   volume, volume_arr, volume_filled, mesh, solid_mesh, stl, preview>>

\* lines 63-64
ReconStlAlloc ==
    /\ pc = "alloc"
    /\ log' = Append(log, Line("saving", NoName))
    /\ solid_mesh' = ZeroVectors(Len(mesh.faces))
    /\ k' = 1
    /\ pc' = "face"
    /\ UNCHANGED <<envVars, files, img, binary, binary_dilated, binary_filled, outDir,
                   volume, volume_arr, volume_filled, mesh, stl, preview, abortedAt>>

\* lines 65-67 for face i = k
ReconStlFace ==
    /\ pc = "face"
    /\ k <= Len(mesh.faces)
    /\ solid_mesh' = [solid_mesh EXCEPT ![k] = FaceVectors(mesh.verts, mesh.faces[k])]
    /\ k' = k + 1
    /\ UNCHANGED <<envVars, files, pc, img, binary, binary_dilated, binary_filled, outDir, log,
                   volume, volume_arr, volume_filled, mesh, stl, preview, abortedAt>>

\* lines 68-69
ReconStlSave ==
    /\ pc = "face"
    /\ k > Len(mesh.faces)
    /\ stl' = StlBytes(solid_mesh)
    /\ log' = Append(log, Line("stl_saved", NoName))
    /\ pc' = "preview"
    /\ UNCHANGED <<envVars, files, k, img, binary, binary_dilated, binary_filled, outDir,
                   volume, volume_arr, volume_filled, mesh, solid_mesh, preview, abortedAt>>

\* lines 72-87
ReconPreview ==
    /\ pc = "preview"
    /\ preview' = TRUE
    /\ log' = Append(log, Line("preview_saved", NoName))
    /\ pc' = "finished"
    /\ UNCHANGED <<envVars, files, k, img, binary, binary_dilated, binary_filled, outDir,
                   volume, volume_arr, volume_filled, mesh, solid_mesh, stl, abortedAt>>

Next ==
    \/ ReconGlob \/ ReconSort \/ ReconSortFail \/ ReconNoFiles \/ ReconBegin
    \/ ReconLoad \/ ReconLoadFail \/ ReconStack \/ ReconStackFail \/ ReconRepair
    \/ ReconExtract \/ ReconExtractFail \/ ReconStlAlloc \/ ReconStlFace
    \/ ReconStlSave \/ ReconPreview


---------------------------------------------------------------------------
(* Inputs of the reconstruction runs *)

Reverse(q) == [i \in DOMAIN q |-> q[Len(q) + 1 - i]]

RECURSIVE Restrict(_, _)
Restrict(q, S) ==
    IF q = <<>> THEN <<>>
    ELSE IF Head(q) \in S THEN <<Head(q)>> \o Restrict(Tail(q), S)
    ELSE Restrict(Tail(q), S)

\* A mask file whose pixels are `v` on `white` and 0 elsewhere.
Mask(h, w, white, v) == Readable(TwoLevel(h, w, white, 0, v))

\* Mask files of a small directory: repeated, zero-padded, upper-case,
\* mixed-case, two-digit and non-numeric names.
SmallNames == << Nm(<<"1">>, <<"p", "n", "g">>), Nm(<<"1">>, <<"j", "p", "g">>),
                 Nm(<<"0", "1">>, <<"p", "n", "g">>), Nm(<<"2">>, <<"P", "N", "G">>),
                 Nm(<<"3">>, <<"P", "n", "g">>), Nm(<<"9">>, <<"p", "n", "g">>),
                 Nm(<<"1", "0">>, <<"p", "n", "g">>), Nm(<<"a">>, <<"p", "n", "g">>) >>

\* Their contents: a 2x10 and a 2x11 mask (both 1x9 once resized), a 2x12 mask
\* (1x10 once resized), a 3x10 mask (2x9 once resized) whose last row is 254
\* instead of 255, and an undecodable file.
SmallContents ==
    {Mask(2, 10, Pixels(2, 10), 255), Mask(2, 11, Pixels(1, 11), 255),
     Mask(2, 12, Pixels(2, 12), 255),
     Readable([h |-> 3, w |-> 10,
               px |-> [p \in Pixels(3, 10) |-> IF p[1] = 3 THEN 254 ELSE 255]]),
     Unreadable}

MaxFiles == 2

\* A directory of at most MaxFiles of the small names, listed in the order of
\* SmallNames or in the reverse order.
InitSmallDir ==
    /\ caseFold \in BOOLEAN
    /\ \E d \in SUBSET Range(SmallNames) :
          /\ Cardinality(d) <= MaxFiles
          /\ dir = d
          /\ listing \in {Restrict(SmallNames, d), Reverse(Restrict(SmallNames, d))}
          /\ content \in [d -> SmallContents]

MaxDepth == 5

StackName(i) == Nm(<<DigitChars[i + 1]>>, <<"p", "n", "g">>)

\* 6x6 masks (5x5 once resized): all black, and a single white pixel that the
\* resize keeps at the centre.
StackContents == {Mask(6, 6, {}, 255), Mask(6, 6, {<<3, 3>>}, 255)}

\* A gap-free stack 1.png .. n.png of at most MaxDepth 6x6 masks.
InitStackDir ==
    /\ caseFold = FALSE
    /\ \E n \in 1..MaxDepth :
          LET names == [i \in 1..n |-> StackName(i)]
          IN  /\ dir = Range(names)
              /\ listing \in {names, Reverse(names)}
              /\ content \in [Range(names) -> StackContents]

Init ==
    /\ InitSmallDir \/ InitStackDir
    /\ files = <<>>
    /\ pc = "collect"
    /\ k = 1
    /\ log = <<>>
    /\ BinIdle
    /\ ReconIdle

Spec == Init /\ [][Next]_vars


MaxVerts == 3

MaxFaces == 2

\* Runs of lines 62-87 alone, from every mesh of 3..MaxVerts vertices and
\* 1..MaxFaces faces.
InitWriter ==
    /\ caseFold = FALSE
    /\ dir = {}
    /\ listing = <<>>
    /\ content = <<>>
    /\ files = <<>>
    /\ pc = "alloc"
    /\ k = 1
    /\ log = <<>>
    /\ BinIdle
    /\ volume = <<>>
    /\ volume_arr = NoVolume
    /\ volume_filled = NoVolume
    /\ \E nv \in 3..MaxVerts : mesh \in Meshes(nv, MaxFaces)
    /\ solid_mesh = <<>>
    /\ stl = NoStl
    /\ preview = FALSE
    /\ abortedAt = ""

NextWriter == ReconStlAlloc \/ ReconStlFace \/ ReconStlSave \/ ReconPreview

SpecWriter == InitWriter /\ [][NextWriter]_vars

---------------------------------------------------------------------------
(* Claims about convert_binarization_to_stl.py *)

\* The file list is sorted: line 29 has run and has not raised.
Sorted == pc \notin {"collect", "sort"} /\ abortedAt # "sort"

Indices == {SliceIndex(files[i]) : i \in DOMAIN files}

\* Some index between the least and the greatest index present is absent.
HasGap ==
    \E a, b \in Indices : \E m \in (a + 1)..(b - 1) : m \notin Indices

NoOutput == ~stl.written /\ ~preview

\* C1: when the slice indices of the sorted masks have a gap, the run aborts and
\* never stacks the masks into a volume, writes the STL or writes the preview.
C1_GapIsFatal ==
    (Sorted /\ HasGap) =>
        /\ volume_arr = NoVolume
        /\ NoOutput
        /\ pc \in {"check", "load", "aborted"}

\* The repaired volume exists and extraction has been attempted on it.
ExtractionTried == volume_filled # NoVolume /\ pc \notin {"extract"}

\* C2: when the repaired volume is all background or all foreground, the run
\* does not fail inside extraction, writes no STL and reports the condition.
C2_EmptyMeshIsReported ==
    (ExtractionTried /\ Degenerate(volume_filled)) =>
        /\ abortedAt # "extract"
        /\ ~stl.written
        /\ HasLine("degenerate", NoName)

\* Two of the loaded layers differ in height or width.
ShapesDiffer ==
    \E i, j \in DOMAIN volume : volume[i].h # volume[j].h \/ volume[i].w # volume[j].w

\* The loading loop can take its next step.
LoadCanStep == ENABLED (ReconLoad \/ ReconLoadFail \/ ReconStack \/ ReconStackFail)

\* C4: when two resized masks differ in height or width, the run is still
\* loading or has aborted, at the latest when the layers are stacked, and no
\* array, repaired volume, mesh or output file exists; a stacked volume has the
\* one height and width of all its layers.
C4_ShapeMismatchIsFatal ==
    /\ ShapesDiffer =>
          /\ pc \in {"load", "aborted"}
          /\ pc = "aborted" => abortedAt \in {"load", "stack"}
          /\ (pc = "aborted" /\ Len(volume) = Len(files)) => abortedAt = "stack"
          /\ volume_arr = NoVolume
          /\ volume_filled = NoVolume
          /\ mesh = NoMesh
          /\ NoOutput
    /\ pc = "load" => LoadCanStep
    /\ volume_arr # NoVolume =>
          /\ volume_arr.d = Len(volume)
          /\ \A i \in DOMAIN volume : volume[i].h = volume_arr.h /\ volume[i].w = volume_arr.w

\* A run that aborted at np.array because the resized masks differ in shape.
C4_Witness ==
    /\ pc = "aborted"
    /\ abortedAt = "stack"
    /\ ShapesDiffer

\* C8: the layers of the stacked volume are in strictly increasing order of
\* the integer parsed from their file stems, so no two layers share an index.
C8_StrictlyIncreasing ==
    volume_arr # NoVolume =>
        \A i, j \in DOMAIN volume : i < j => SliceIndex(files[i]) < SliceIndex(files[j])

\* C9: the repaired volume has the shape of the stacked volume and keeps every
\* foreground voxel of it.
C9_RepairOnlyAdds ==
    volume_filled # NoVolume =>
        /\ volume_filled.d = volume_arr.d
        /\ volume_filled.h = volume_arr.h
        /\ volume_filled.w = volume_arr.w
        /\ volume_arr.fg \subseteq volume_filled.fg

\* The triangle of face i of the mesh: its three vertices in the order of the
\* face's index triple.
FaceTriangle(i) ==
    <<mesh.verts[mesh.faces[i][1]], mesh.verts[mesh.faces[i][2]], mesh.verts[mesh.faces[i][3]]>>

\* C6: the written STL holds one triangle per face, in face order, triangle i
\* with the vertices of face i in the order of its index triple, and reading the
\* file back gives the same count and the same ordered vertex positions.
C6_OneTrianglePerFace ==
    stl.written =>
        /\ stl.count = Len(mesh.faces)
        /\ Len(stl.tris) = Len(mesh.faces)
        /\ \A i \in DOMAIN mesh.faces : stl.tris[i].v = FaceTriangle(i)
        /\ ReadBack(stl) = [i \in DOMAIN mesh.faces |-> FaceTriangle(i)]

\* A written STL of two faces with different corner orders.
C6_Witness ==
    /\ stl.written
    /\ Len(mesh.faces) = 2
    /\ mesh.faces[1] # mesh.faces[2]
    /\ mesh.faces[1][1] # 1

===========================================================================
